---- MODULE Spec2Model ----
(***************************************************************************)
(* Model of src/master_orchestrator.py: the construction of the            *)
(* MasterOrchestrator (configuration loading with defaults, the Firebase   *)
(* fallback to a Mock handle, the construction of the components and the   *)
(* SystemState the constructor leaves behind).                             *)
(***************************************************************************)
EXTENDS Integers, Sequences, FiniteSets, TLC

VARIABLES
    cfgFile,    \* what os.path.exists/open/json.load find at config_path
    userDoc,    \* the document json.load returns (meaningful when cfgFile = "ok")
    pc,         \* position of the constructor
    config,     \* self.config
    db,         \* self.db
    state,      \* self.state
    fbOutcome,  \* the branch _init_firebase took
    built,      \* the components constructed so far, in order
    failed,     \* the component whose constructor raised
    pending,    \* the exception being handled or propagated
    raised,     \* the exception that left the constructor
    log         \* the records handed to the logger, in order

vars == <<cfgFile, userDoc, pc, config, db, state, fbOutcome, built, failed,
          pending, raised, log>>

----------------------------------------------------------------------------
(* Bounds of the input space.                                              *)

\* sections of the recognized four that a loaded document holds at most
MaxSections == 2
\* elements of a section that is a JSON array, at most
MaxItems == 2

----------------------------------------------------------------------------
(* JSON scalars: the type and the literal text.                            *)

Str(s) == [t |-> "str", s |-> s]
Num(s) == [t |-> "num", s |-> s]
Null == [t |-> "null", s |-> "null"]

(* class SystemState(Enum)                                                 *)
SystemState ==
    {"INITIALIZING", "GENERATING", "TRAINING", "EVALUATING", "DEPLOYING",
     "EVOLVING", "ERROR", "MAINTENANCE"}

\* self.state before line 74 assigns it; self.db when no line assigned it
Unset == "unset"

(* default_config of _load_config; a dict keeps insertion order, so the    *)
(* loop `for key in default_config` visits TopKeys in this order.          *)
TopKeys == <<"firebase", "training", "evolution", "monitoring">>

TopKeySet == {TopKeys[i] : i \in 1..Len(TopKeys)}

DefaultConfig ==
    [key \in TopKeySet |->
        CASE key = "firebase" ->
                 ("credential_path" :> Str("firebase_credentials.json")
                  @@ "project_id" :> Str("trading-networks"))
          [] key = "training" ->
                 ("generation_size" :> Num("10")
                  @@ "validation_split" :> Num("0.2")
                  @@ "epochs" :> Num("100"))
          [] key = "evolution" ->
                 ("selection_rate" :> Num("0.3")
                  @@ "mutation_rate" :> Num("0.1")
                  @@ "crossover_rate" :> Num("0.4"))
          [] key = "monitoring" ->
                 ("performance_threshold" :> Num("0.55")
                  @@ "stagnation_limit" :> Num("5"))]

----------------------------------------------------------------------------
(* The documents json.load can return.                                     *)

\* a key no default names, at top level or inside a section
ExtraKey == "extra"

\* the key of its defaults a loaded section may override
OverrideKey(key) ==
    CASE key = "firebase" -> "credential_path"
      [] key = "training" -> "epochs"
      [] key = "evolution" -> "mutation_rate"
      [] key = "monitoring" -> "stagnation_limit"

\* the keys a loaded section may hold: one the defaults name, one they do not
SectionKeys(key) == {OverrideKey(key), ExtraKey}

\* the values a loaded document gives a key
UserValues(key, k) ==
    IF key = "firebase" /\ k = "credential_path"
    THEN {Str("alt_credentials.json"), Null}
    ELSE {Str("user")}

NoKv == [k \in {} |-> Null]

\* the JSON objects over the keys ks of section key
RECURSIVE KvMaps(_, _)
KvMaps(key, ks) ==
    IF ks = {} THEN {NoKv}
    ELSE LET k == CHOOSE x \in ks : TRUE
             rest == KvMaps(key, ks \ {k})
         IN  {(k :> v) @@ m : v \in UserValues(key, k), m \in rest}

\* a section that is a JSON object
ObjSections(key) ==
    UNION {{[kind |-> "obj", kv |-> f, items |-> <<>>] : f \in KvMaps(key, ks)} :
           ks \in SUBSET SectionKeys(key)}

\* an element of a section that is a JSON array: a [k, v] pair, or something
\* dict.update cannot read as a pair
PairItem(k, v) == [pair |-> TRUE, k |-> k, v |-> v, exc |-> "none"]
BadItem(exc) == [pair |-> FALSE, k |-> "", v |-> Null, exc |-> exc]

ArrItems(key) ==
    {PairItem(OverrideKey(key), Str("user")), BadItem("TypeError")}

ArrSections(key) ==
    UNION {{[kind |-> "arr", kv |-> NoKv, items |-> s] :
               s \in [1..n -> ArrItems(key)]} : n \in 0..MaxItems}

\* a section that is a number, or a non-empty string
ScalarSections ==
    {[kind |-> "num", kv |-> NoKv, items |-> <<>>],
     [kind |-> "str", kv |-> NoKv, items |-> <<>>]}

SectionValues(key) ==
    IF key = ExtraKey
    THEN {[kind |-> "num", kv |-> NoKv, items |-> <<>>]}
    ELSE ObjSections(key) \cup ArrSections(key) \cup ScalarSections

\* a top-level key the loaded document does not hold
Absent == [kind |-> "absent", kv |-> NoKv, items |-> <<>>]

AllTopKeys == TopKeySet \cup {ExtraKey}

NoSecs == [key \in AllTopKeys |-> Absent]

\* the number of recognized sections a JSON object holds
Present(secs) == Cardinality({key \in TopKeySet : secs[key].kind # "absent"})

\* a document that is no JSON object: an array or a string (has: the
\* recognized keys that `key in user_config` finds in it), a number or null
NonObjDocs ==
    {[kind |-> kd, secs |-> NoSecs, has |-> h] :
        kd \in {"arr", "str"}, h \in {{}, {"training"}, {"firebase", "training"}}}
    \cup {[kind |-> kd, secs |-> NoSecs, has |-> {}] : kd \in {"num", "null"}}

NoDoc == [kind |-> "null", secs |-> NoSecs, has |-> {}]

----------------------------------------------------------------------------
(* _load_config                                                            *)

\* dict.update over a list: the elements are stored one at a time, and an
\* element that is no pair raises with the earlier ones already stored
RECURSIVE UpdateFromSeq(_, _, _)
UpdateFromSeq(d, items, i) ==
    IF i > Len(items) THEN [d |-> d, exc |-> "none"]
    ELSE IF ~items[i].pair THEN [d |-> d, exc |-> items[i].exc]
    ELSE UpdateFromSeq(
             [k \in DOMAIN d \cup {items[i].k} |->
                 IF k = items[i].k THEN items[i].v ELSE d[k]],
             items, i + 1)

DictUpdateReplaces(d, sv) ==
    CASE sv.kind = "obj" -> [d |-> sv.kv, exc |-> "none"]
      [] sv.kind = "arr" -> UpdateFromSeq(d, sv.items, 1)
      [] sv.kind = "num" -> [d |-> d, exc |-> "TypeError"]
      [] sv.kind = "str" -> [d |-> d, exc |-> "ValueError"]

\* default_config[key].update(user_config[key])
DictUpdate(d, sv) ==
    CASE sv.kind = "obj" ->
             [d |-> [k \in DOMAIN d \cup DOMAIN sv.kv |->
                        IF k \in DOMAIN sv.kv THEN sv.kv[k] ELSE d[k]],
              exc |-> "none"]
      [] sv.kind = "arr" -> UpdateFromSeq(d, sv.items, 1)
      [] sv.kind = "num" -> [d |-> d, exc |-> "TypeError"]
      [] sv.kind = "str" -> [d |-> d, exc |-> "ValueError"]

\* `key in user_config`
Contains(doc, key) ==
    CASE doc.kind = "obj" -> IF doc.secs[key].kind # "absent" THEN "true" ELSE "false"
      [] doc.kind \in {"arr", "str"} -> IF key \in doc.has THEN "true" ELSE "false"
      [] OTHER -> "TypeError"

\* the loop of lines 114-116 from the i-th key on; default_config is updated
\* in place, so what was merged before an exception stays merged
RECURSIVE MergeLoop(_, _, _)
MergeLoop(cfg, doc, i) ==
    IF i > Len(TopKeys) THEN [cfg |-> cfg, exc |-> "none"]
    ELSE LET key == TopKeys[i]
             c == Contains(doc, key)
         IN  IF c = "TypeError" THEN [cfg |-> cfg, exc |-> "TypeError"]
             ELSE IF c = "false" THEN MergeLoop(cfg, doc, i + 1)
             ELSE IF doc.kind # "obj" THEN [cfg |-> cfg, exc |-> "TypeError"]
             ELSE LET r == DictUpdate(cfg[key], doc.secs[key])
                      merged == [cfg EXCEPT ![key] = r.d]
                  IN  IF r.exc # "none" THEN [cfg |-> merged, exc |-> r.exc]
                      ELSE MergeLoop(merged, doc, i + 1)

LoadTryBodyTopLevelUpdate(file, doc) ==
    CASE file = "absent" -> [cfg |-> DefaultConfig, exc |-> "none"]
      [] file = "unreadable" -> [cfg |-> DefaultConfig, exc |-> "OSError"]
      [] file = "malformed" -> [cfg |-> DefaultConfig, exc |-> "ValueError"]
      [] file = "ok" ->
             IF doc.kind # "obj" THEN [cfg |-> DefaultConfig, exc |-> "TypeError"]
             ELSE [cfg |->
                      [key \in TopKeySet
                                 \cup {x \in AllTopKeys : doc.secs[x].kind # "absent"} |->
                          IF doc.secs[key].kind = "obj" THEN doc.secs[key].kv
                          ELSE IF key \in TopKeySet THEN DefaultConfig[key]
                          ELSE NoKv],
                   exc |-> "none"]

\* the body of the try of lines 109-117
LoadTryBody(file, doc) ==
    CASE file = "absent" -> [cfg |-> DefaultConfig, exc |-> "none"]
      [] file = "unreadable" -> [cfg |-> DefaultConfig, exc |-> "OSError"]
      [] file = "malformed" -> [cfg |-> DefaultConfig, exc |-> "ValueError"]
      [] file = "ok" -> MergeLoop(DefaultConfig, doc, 1)

\* the classes `except Exception` catches, of those raised here
ExceptionSubclasses == {"OSError", "ValueError", "TypeError", "RuntimeError"}

ConfigHandlerNarrow(exc) == exc \in {"OSError", "ValueError"}

\* `except Exception as e` of line 118
ConfigHandlerCatches(exc) == exc \in ExceptionSubclasses

ConfigWarning == <<"warning", "Config load failed, using defaults">>

LoadConfig(file, doc) ==
    LET r == LoadTryBody(file, doc)
    IN  IF r.exc = "none"
        THEN [config |-> r.cfg, log |-> <<>>, raised |-> "none"]
        ELSE IF ConfigHandlerCatches(r.exc)
        THEN [config |-> r.cfg, log |-> <<ConfigWarning>>, raised |-> "none"]
        ELSE [config |-> r.cfg, log |-> <<>>, raised |-> r.exc]

----------------------------------------------------------------------------
(* __init__, lines 65-68                                                   *)

LoadConfigStep ==
    /\ pc = "load_config"
    /\ LET r == LoadConfig(cfgFile, userDoc)
       IN  /\ config' = r.config
           /\ log' = <<<<"info", "Initializing Master Orchestrator">>>> \o r.log
           /\ raised' = r.raised
           /\ pc' = IF r.raised = "none" THEN "init_firebase" ELSE "raised"
    /\ UNCHANGED <<cfgFile, userDoc, db, state, fbOutcome, built, failed, pending>>

\* the documents the file may hold
InitDoc ==
    \/ userDoc \in NonObjDocs
    \/ \E fb \in SectionValues("firebase") \cup {Absent},
          tr \in SectionValues("training") \cup {Absent},
          ev \in SectionValues("evolution") \cup {Absent},
          mo \in SectionValues("monitoring") \cup {Absent},
          ex \in SectionValues(ExtraKey) \cup {Absent} :
          LET secs == [key \in AllTopKeys |->
                          CASE key = "firebase" -> fb
                            [] key = "training" -> tr
                            [] key = "evolution" -> ev
                            [] key = "monitoring" -> mo
                            [] OTHER -> ex]
          IN  /\ Present(secs) <= MaxSections
              /\ userDoc = [kind |-> "obj", secs |-> secs, has |-> {}]

InitLoad ==
    /\ cfgFile \in {"absent", "unreadable", "malformed", "ok"}
    /\ IF cfgFile = "ok" THEN InitDoc ELSE userDoc = NoDoc
    /\ pc = "load_config"
    /\ config = DefaultConfig
    /\ db = Unset
    /\ state = Unset
    /\ fbOutcome = "none"
    /\ built = <<>>
    /\ failed = "none"
    /\ pending = "none"
    /\ raised = "none"
    /\ log = <<>>

SpecLoad == InitLoad /\ [][LoadConfigStep]_vars

----------------------------------------------------------------------------
(* _init_firebase                                                          *)

\* os.path.exists(cred_path): a path that is no str, bytes or int raises
PathArgument(v) == IF v.t = "str" THEN "none" ELSE "TypeError"

\* what credentials.Certificate and firebase_admin.initialize_app may raise
FirebaseErrors == {"ValueError", "OSError"}

FirebaseHandlerNarrow(exc) == exc \in {"ValueError", "OSError"}

\* `except Exception as e` of line 139
FirebaseHandlerCatches(exc) == exc \in ExceptionSubclasses

\* lines 139-143: the handler of _init_firebase
FirebaseFallback(exc) ==
    IF FirebaseHandlerCatches(exc)
    THEN /\ db' = "Mock"
         /\ fbOutcome' = "exception"
         /\ log' = Append(log, <<"error", "Firebase initialization failed">>)
         /\ pc' = "init_state"
         /\ UNCHANGED raised
    ELSE /\ raised' = exc
         /\ pc' = "raised"
         /\ fbOutcome' = "exception"
         /\ UNCHANGED <<db, log>>

\* line 125 and os.path.exists of line 127 raising
InitFirebaseBadPath ==
    /\ pc = "init_firebase"
    /\ PathArgument(config["firebase"]["credential_path"]) # "none"
    /\ FirebaseFallback(PathArgument(config["firebase"]["credential_path"]))
    /\ UNCHANGED <<cfgFile, userDoc, config, state, built, failed, pending>>

\* lines 133-138: no file at cred_path
InitFirebaseAbsent ==
    /\ pc = "init_firebase"
    /\ PathArgument(config["firebase"]["credential_path"]) = "none"
    /\ db' = "Mock"
    /\ fbOutcome' = "absent"
    /\ log' = log \o <<<<"warning", "Firebase credentials not found">>,
                       <<"info", "Using mock Firestore for development">>>>
    /\ pc' = "init_state"
    /\ UNCHANGED <<cfgFile, userDoc, config, state, built, failed, pending, raised>>

\* lines 128-131 raising: the file is there, Certificate or initialize_app fails
InitFirebaseFails ==
    /\ pc = "init_firebase"
    /\ PathArgument(config["firebase"]["credential_path"]) = "none"
    /\ \E exc \in FirebaseErrors : FirebaseFallback(exc)
    /\ UNCHANGED <<cfgFile, userDoc, config, state, built, failed, pending>>

\* lines 128-132: the file is there and the app is initialized; no line of
\* this branch assigns self.db
InitFirebaseLive ==
    /\ pc = "init_firebase"
    /\ PathArgument(config["firebase"]["credential_path"]) = "none"
    /\ fbOutcome' = "initialized"
    /\ log' = Append(log, <<"info", "Firebase initialized successfully">>)
    /\ pc' = "init_state"
    /\ UNCHANGED <<cfgFile, userDoc, config, db, state, built, failed, pending,
                   raised>>

\* a call of a method of self.db: a Mock answers every call with a Mock, an
\* attribute never assigned raises AttributeError
HandleCall(handle, method) ==
    IF handle = Unset THEN "AttributeError" ELSE "returned"

----------------------------------------------------------------------------
(* __init__, lines 73-84, and _initialize_components                       *)

\* the constructors of lines 150-155, in order
Components ==
    <<"DataPipeline", "ArchitectureGenerator", "TrainingEngine",
      "DeploymentManager", "PerformanceMonitor", "EvolutionEngine">>

\* the five of them that serve a phase
PhaseServices == {Components[i] : i \in 2..Len(Components)}

\* what a constructor may raise
ComponentErrors == {"RuntimeError", "TypeError"}

\* lines 74-76
BeginComponents ==
    /\ pc = "init_state"
    /\ state' = "INITIALIZING"
    /\ pc' = "components"
    /\ UNCHANGED <<cfgFile, userDoc, config, db, fbOutcome, built, failed, pending,
                   raised, log>>

\* a constructor of lines 150-155 returns
ConstructOk ==
    /\ pc = "components"
    /\ Len(built) < Len(Components)
    /\ built' = Append(built, Components[Len(built) + 1])
    /\ log' = IF built = <<>>
              THEN Append(log, <<"info", "Initializing system components">>)
              ELSE log
    /\ UNCHANGED <<cfgFile, userDoc, pc, config, db, state, fbOutcome, failed,
                   pending, raised>>

\* a constructor of lines 150-155 raises
ConstructFails ==
    /\ pc = "components"
    /\ Len(built) < Len(Components)
    /\ \E exc \in ComponentErrors : pending' = exc
    /\ failed' = Components[Len(built) + 1]
    /\ log' = IF built = <<>>
              THEN Append(log, <<"info", "Initializing system components">>)
              ELSE log
    /\ pc' = "handler"
    /\ UNCHANGED <<cfgFile, userDoc, config, db, state, fbOutcome, built, raised>>

\* line 80 and the return of __init__: nothing assigns self.state
FinishInit ==
    /\ pc = "components"
    /\ Len(built) = Len(Components)
    /\ log' = Append(log, <<"info", "Orchestrator initialization complete">>)
    /\ pc' = "done"
    /\ UNCHANGED <<cfgFile, userDoc, config, db, state, fbOutcome, built, failed,
                   pending, raised>>

HandleFailureKeepsState ==
    /\ pc = "handler"
    /\ log' = Append(log, <<"error", "Component initialization failed">>)
    /\ pc' = "reraise"
    /\ UNCHANGED <<cfgFile, userDoc, config, db, state, fbOutcome, built, failed,
                   pending, raised>>

\* lines 81-83
HandleFailure ==
    /\ pc = "handler"
    /\ log' = Append(log, <<"error", "Component initialization failed">>)
    /\ state' = "ERROR"
    /\ pc' = "reraise"
    /\ UNCHANGED <<cfgFile, userDoc, config, db, fbOutcome, built, failed, pending,
                   raised>>

ReraiseRecovers ==
    /\ pc = "reraise"
    /\ state' = "GENERATING"
    /\ raised' = pending
    /\ pc' = "raised"
    /\ UNCHANGED <<cfgFile, userDoc, config, db, fbOutcome, built, failed, pending,
                   log>>

\* line 84
Reraise ==
    /\ pc = "reraise"
    /\ raised' = pending
    /\ pc' = "raised"
    /\ UNCHANGED <<cfgFile, userDoc, config, db, state, fbOutcome, built, failed,
                   pending, log>>

----------------------------------------------------------------------------

\* the constructor's inputs: the documents that reach past _load_config only
\* through the firebase section
Init ==
    /\ InitLoad
    /\ \A key \in TopKeySet \ {"firebase"} : userDoc.secs[key] = Absent

Next ==
    \/ LoadConfigStep
    \/ InitFirebaseBadPath
    \/ InitFirebaseAbsent
    \/ InitFirebaseFails
    \/ InitFirebaseLive
    \/ BeginComponents
    \/ ConstructOk
    \/ ConstructFails
    \/ FinishInit
    \/ HandleFailure
    \/ Reraise

Spec == Init /\ [][Next]_vars

----------------------------------------------------------------------------
(* The claims.                                                             *)

\* _load_config has returned or raised
Loaded == pc # "load_config"

\* the warning of line 119 was logged
LoadFailed == \E i \in 1..Len(log) : log[i] = ConfigWarning

\* the loaded document is a mapping whose recognized sections are mappings
WellFormed ==
    /\ cfgFile = "ok"
    /\ userDoc.kind = "obj"
    /\ \A key \in TopKeySet : userDoc.secs[key].kind \in {"obj", "absent"}

\* C1: whenever construction completes without raising, the state is
\* GENERATING, and with no config file and no credential file the handle is
\* the stand-in.  (The state part fails: the constructor leaves INITIALIZING.)
C1_ConstructedIsGenerating ==
    pc = "done" =>
        /\ state = "GENERATING"
        /\ (cfgFile = "absent" /\ fbOutcome = "absent" => db = "Mock")

\* C2: when the constructor of a component raises, the state is ERROR before
\* the failure leaves __init__, the failure that leaves is the one raised,
\* and the constructor never completes normally.
C2_FailureSetsErrorAndReraises ==
    failed # "none" =>
        /\ pc \in {"handler", "reraise", "raised"}
        /\ (pc \in {"reraise", "raised"} => state = "ERROR")
        /\ (pc = "raised" => raised = pending /\ raised \in ComponentErrors)

C2_Witness ==
    /\ pc = "raised"
    /\ failed \in PhaseServices
    /\ failed = Components[Len(Components)]
    /\ state = "ERROR"

\* C4: once the state is ERROR no step of the controller changes it.
C4_ErrorIsAbsorbing == [][state = "ERROR" => state' = "ERROR"]_vars

C4_Witness == state = "ERROR" /\ pc = "raised" /\ raised # "none"

C6_LiveHandle ==
    /\ (fbOutcome = "initialized" =>
            db \notin {Unset, "Mock"} /\ HandleCall(db, "write") = "returned")
    /\ (fbOutcome # "none" /\ raised = "none" => db # Unset)

\* C7: _load_config returns a configuration and raises nothing, whatever the
\* file and the document in it.
C7_LoadNeverRaises ==
    Loaded =>
        /\ raised = "none"
        /\ pc = "init_firebase"
        /\ DOMAIN config = TopKeySet

C7_Witness ==
    /\ Loaded
    /\ LoadFailed
    /\ userDoc.kind = "obj"
    /\ userDoc.secs["training"].kind = "num"

\* C8: when loading fails (no file, unreadable, unparsable, or an error while
\* merging) the configuration returned is the defaults, with no value of the
\* loaded document in it.  (Fails: the sections merged before the error keep
\* the loaded values.)
C8_ErrorReturnsDefaults ==
    Loaded /\ (cfgFile # "ok" \/ LoadFailed) => config = DefaultConfig

C10_OnlyRecognizedNames ==
    Loaded =>
        /\ DOMAIN config = TopKeySet
        /\ \A key \in TopKeySet : DOMAIN config[key] = DOMAIN DefaultConfig[key]

\* C10 amended: the configuration returned has the four recognized top-level
\* keys and no other, and each section keeps every option name of the
\* defaults; an unrecognized key, at top level or in a section, causes no
\* error; an unrecognized top-level key is dropped, but an unrecognized key
\* of a merged section is copied into the section with its loaded value.
C10_UnrecognizedKeys ==
    Loaded =>
        /\ DOMAIN config = TopKeySet
        /\ \A key \in TopKeySet : DOMAIN DefaultConfig[key] \subseteq DOMAIN config[key]
        /\ (WellFormed => ~LoadFailed /\ raised = "none")
        /\ (WellFormed =>
               \A key \in TopKeySet :
                   DOMAIN config[key] \ DOMAIN DefaultConfig[key]
                       = DOMAIN userDoc.secs[key].kv \ DOMAIN DefaultConfig[key])
        /\ (WellFormed =>
               \A key \in TopKeySet :
                   \A k \in DOMAIN userDoc.secs[key].kv \ DOMAIN DefaultConfig[key] :
                       config[key][k] = userDoc.secs[key].kv[k])

C10_Witness ==
    /\ Loaded
    /\ WellFormed
    /\ userDoc.secs[ExtraKey].kind # "absent"
    /\ ExtraKey \in DOMAIN userDoc.secs["evolution"].kv
    /\ ExtraKey \in DOMAIN config["evolution"]
    /\ ~LoadFailed

====
